---- MODULE Spec2Model ----
(***************************************************************************)
(* The variant-call section of workflow/scripts/generate-overview-table.py *)
(* (lines 171-246): for every sample the annotated variant records are     *)
(* read, the HGVS protein notation of each annotation is split, translated *)
(* to one-letter amino-acid codes, classified against the two reference    *)
(* sets and inserted into one of three label -> vaf dictionaries, which    *)
(* are formatted into the sample's row; afterwards over-long "Other        *)
(* Mutations" cells are replaced by a placeholder.                        *)
(*                                                                         *)
(* Python strings are modelled as sequences of one-character strings, so   *)
(* that splitting, replacing, comparing and measuring them is computed.    *)
(* A VAF is modelled as a number of sixteenths (exactly representable as a *)
(* float), so that the ".3f" rendering can be computed exactly.            *)
(***************************************************************************)
EXTENDS Integers, Sequences, FiniteSets, TLC

VARIABLES
    pc,                    \* "loop" (195-241), "guard" (before 244), "done", "crashed"
    cur,                   \* index of the sample whose file is being read
    flirt_mutations,       \* line 196
    mutations_of_interest, \* line 197
    other_mutations,       \* line 198
    data,                  \* the three variant columns of the DataFrame, per sample
    error,                 \* the uncaught exception, if any
    nann,                  \* history: number of annotations processed so far
    last,                  \* history: what became of the last annotation, and its HGVS
                           \*          string if it was not inserted
    inserted,              \* history: the insert_entry calls of the current sample
    t_orig,                \* translator run: the alteration to translate
    t_cur                  \* translator run: the alteration after the replacements so far

vars == <<pc, cur, flirt_mutations, mutations_of_interest, other_mutations,
          data, error, nann, last, inserted, t_orig, t_cur>>

(***************************************************************************)
(* Bounds of the model.                                                    *)
(***************************************************************************)
NSamples == 2
MaxAnns == 3
MaxTokens == 2

(***************************************************************************)
(* Strings.                                                                *)
(***************************************************************************)
\* Code points of the characters that occur (Python compares str by code point).
Ord ==
    " " :> 32 @@ "*" :> 42 @@ "." :> 46 @@ "0" :> 48 @@ "1" :> 49 @@ "2" :> 50 @@
    "3" :> 51 @@ "4" :> 52 @@ "5" :> 53 @@ "6" :> 54 @@ "7" :> 55 @@ "8" :> 56 @@
    "9" :> 57 @@ ":" :> 58 @@ "A" :> 65 @@ "B" :> 66 @@ "C" :> 67 @@ "D" :> 68 @@
    "E" :> 69 @@ "F" :> 70 @@ "G" :> 71 @@ "H" :> 72 @@ "I" :> 73 @@ "J" :> 74 @@
    "K" :> 75 @@ "L" :> 76 @@ "M" :> 77 @@ "N" :> 78 @@ "O" :> 79 @@ "P" :> 80 @@
    "Q" :> 81 @@ "R" :> 82 @@ "S" :> 83 @@ "T" :> 84 @@ "U" :> 85 @@ "V" :> 86 @@
    "W" :> 87 @@ "X" :> 88 @@ "Y" :> 89 @@ "Z" :> 90 @@ "_" :> 95 @@ "a" :> 97 @@
    "b" :> 98 @@ "c" :> 99 @@ "d" :> 100 @@ "e" :> 101 @@ "f" :> 102 @@ "g" :> 103 @@
    "h" :> 104 @@ "i" :> 105 @@ "j" :> 106 @@ "k" :> 107 @@ "l" :> 108 @@ "m" :> 109 @@
    "n" :> 110 @@ "o" :> 111 @@ "p" :> 112 @@ "q" :> 113 @@ "r" :> 114 @@ "s" :> 115 @@
    "t" :> 116 @@ "u" :> 117 @@ "v" :> 118 @@ "w" :> 119 @@ "x" :> 120 @@ "y" :> 121 @@
    "z" :> 122

\* a < b for Python str: the first differing character decides, a proper prefix is smaller.
StrLess(a, b) ==
    \E i \in 1..(Len(b)) :
        /\ i <= Len(a) + 1
        /\ \A j \in 1..(i - 1) : a[j] = b[j]
        /\ \/ i = Len(a) + 1
           \/ Ord[a[i]] < Ord[b[i]]

\* sorted(...) of a collection of distinct strings.
RECURSIVE sorted(_)
sorted(S) ==
    IF S = {} THEN << >>
    ELSE LET m == CHOOSE x \in S : \A y \in S \ {x} : StrLess(x, y)
         IN  <<m>> \o sorted(S \ {m})

\* sep.join(parts)
RECURSIVE join(_, _)
join(sep, parts) ==
    IF parts = << >> THEN << >>
    ELSE IF Len(parts) = 1 THEN parts[1]
    ELSE parts[1] \o sep \o join(sep, Tail(parts))

\* s.split(sep, 1) for a one-character separator: one part when sep does not
\* occur, else the text before and the text after its first occurrence.
split1(s, sep) ==
    IF \A i \in 1..Len(s) : s[i] # sep THEN <<s>>
    ELSE LET k == CHOOSE i \in 1..Len(s) :
                      s[i] = sep /\ \A j \in 1..(i - 1) : s[j] # sep
         IN  <<SubSeq(s, 1, k - 1), SubSeq(s, k + 1, Len(s))>>

\* A broken str.replace that stops after the first occurrence.
replace_first(s, old, new) ==
    IF \E i \in 1..(Len(s) - Len(old) + 1) : SubSeq(s, i, i + Len(old) - 1) = old
    THEN LET k == CHOOSE i \in 1..(Len(s) - Len(old) + 1) :
                      /\ SubSeq(s, i, i + Len(old) - 1) = old
                      /\ \A j \in 1..(i - 1) : SubSeq(s, j, j + Len(old) - 1) # old
         IN  SubSeq(s, 1, k - 1) \o new \o SubSeq(s, k + Len(old), Len(s))
    ELSE s

\* s.replace(old, new): every non-overlapping occurrence, scanning left to right.
RECURSIVE replace(_, _, _)
replace(s, old, new) ==
    IF Len(s) < Len(old) THEN s
    ELSE IF SubSeq(s, 1, Len(old)) = old
         THEN new \o replace(SubSeq(s, Len(old) + 1, Len(s)), old, new)
         ELSE <<s[1]>> \o replace(Tail(s), old, new)

(***************************************************************************)
(* The translation table, in the dictionary's (insertion) order.           *)
(***************************************************************************)
AA_ALPHABET_TRANSLATION ==
    << <<<<"G", "l", "y">>, <<"G">>>>,
       <<<<"A", "l", "a">>, <<"A">>>>,
       <<<<"L", "e", "u">>, <<"L">>>>,
       <<<<"M", "e", "t">>, <<"M">>>>,
       <<<<"P", "h", "e">>, <<"F">>>>,
       <<<<"T", "r", "p">>, <<"W">>>>,
       <<<<"L", "y", "s">>, <<"K">>>>,
       <<<<"G", "l", "n">>, <<"Q">>>>,
       <<<<"G", "l", "u">>, <<"E">>>>,
       <<<<"S", "e", "r">>, <<"S">>>>,
       <<<<"P", "r", "o">>, <<"P">>>>,
       <<<<"V", "a", "l">>, <<"V">>>>,
       <<<<"I", "l", "e">>, <<"I">>>>,
       <<<<"C", "y", "s">>, <<"C">>>>,
       <<<<"T", "y", "r">>, <<"Y">>>>,
       <<<<"H", "i", "s">>, <<"H">>>>,
       <<<<"A", "r", "g">>, <<"R">>>>,
       <<<<"A", "s", "n">>, <<"N">>>>,
       <<<<"A", "s", "p">>, <<"D">>>>,
       <<<<"T", "h", "r">>, <<"T">>>> >>

\* A broken loop body that stops after the first occurrence of the code.
ReplaceStep_first(i, alteration) ==
    replace_first(alteration, AA_ALPHABET_TRANSLATION[i][1], AA_ALPHABET_TRANSLATION[i][2])

\* Line 228 for table entry i.
ReplaceStep(i, alteration) ==
    replace(alteration, AA_ALPHABET_TRANSLATION[i][1], AA_ALPHABET_TRANSLATION[i][2])

\* Lines 227-228: one replace per table entry, from entry i on.
RECURSIVE TranslateFrom(_, _)
TranslateFrom(i, alteration) ==
    IF i > Len(AA_ALPHABET_TRANSLATION) THEN alteration
    ELSE TranslateFrom(i + 1, ReplaceStep(i, alteration))

Translate(alteration) == TranslateFrom(1, alteration)

(***************************************************************************)
(* Line 225-226: the two unpacking splits.  ok = FALSE stands for the      *)
(* ValueError raised when a split yields one part instead of two.          *)
(***************************************************************************)
\* A tolerant parser that never raises: the text after the last separator found.
ParseHgvsp_lenient(hgvsp) ==
    LET p1 == split1(hgvsp, ":")
        p2 == split1(p1[Len(p1)], ".")
    IN  [ok |-> TRUE, alteration |-> p2[Len(p2)]]

ParseHgvsp(hgvsp) ==
    LET p1 == split1(hgvsp, ":")
    IN  IF Len(p1) # 2 THEN [ok |-> FALSE, alteration |-> << >>]
        ELSE LET p2 == split1(p1[2], ".")
             IN  IF Len(p2) # 2 THEN [ok |-> FALSE, alteration |-> << >>]
                 ELSE [ok |-> TRUE, alteration |-> p2[2]]

\* Alterations that occur in the reference sets and the inputs.
G12A_ == <<"G", "1", "2", "A">>
M1L_ == <<"M", "1", "L">>
Met1Leu_ == <<"M", "e", "t", "1", "L", "e", "u">>
Gly12Ala_ == <<"G", "l", "y", "1", "2", "A", "l", "a">>
Ala1_ == <<"A", "l", "a", "1">>
Ala12_ == <<"A", "l", "a", "1", "2">>

(***************************************************************************)
(* The reference sets snakemake.params.flirt and snakemake.params.mth:     *)
(* feature -> alterations.  The configuration lists one alteration in both *)
(* sets, one in three-letter form, and no entry at all for feature N.      *)
(***************************************************************************)
params_flirt ==
    (<<"S">> :> {G12A_, Met1Leu_})

params_mth ==
    (<<"S">> :> {G12A_, M1L_})

\* d.get(key, {})
Get(d, key) == IF key \in DOMAIN d THEN d[key] ELSE {}

\* A dispatch that tests the second reference set first.
Classify_mth_first(feature, alteration) ==
    IF alteration \in Get(params_mth, feature) THEN "voc"
    ELSE IF alteration \in Get(params_flirt, feature) THEN "flirt"
    ELSE "other"

\* Lines 232-237: which dictionary the entry goes to.
Classify(feature, alteration) ==
    IF alteration \in Get(params_flirt, feature) THEN "flirt"
    ELSE IF alteration \in Get(params_mth, feature) THEN "voc"
    ELSE "other"

\* Classification of the alteration as parsed, before the translation loop.
Annotate_pre(feature, raw) ==
    LET alteration == Translate(raw)
    IN  [label      |-> feature \o <<":">> \o alteration,
         alteration |-> alteration,
         tier       |-> Classify(feature, raw)]

\* Lines 227-237 for a parsed alteration: translate, build the label, dispatch.
Annotate(feature, raw) ==
    LET alteration == Translate(raw)
    IN  [label      |-> feature \o <<":">> \o alteration,
         alteration |-> alteration,
         tier       |-> Classify(feature, alteration)]

EmptyMap == [x \in {} |-> 0]

\* An insert that always overwrites (keeps the last value).
insert_entry_last(variants, hgvsp, v) ==
    [x \in DOMAIN variants \cup {hgvsp} |-> IF x = hgvsp THEN v ELSE variants[x]]

\* Lines 200-210.
insert_entry(variants, hgvsp, v) ==
    IF hgvsp \notin DOMAIN variants \/ variants[hgvsp] < v
    THEN [x \in DOMAIN variants \cup {hgvsp} |-> IF x = hgvsp THEN v ELSE variants[x]]
    ELSE variants

(***************************************************************************)
(* Formatting.                                                             *)
(***************************************************************************)
Digit(d) == <<"0", "1", "2", "3", "4", "5", "6", "7", "8", "9">>[d + 1]

\* f"{vaf:.3f}" for vaf = v/16: v/16 = (v * 125 / 2) thousandths, and a float
\* that lies exactly half-way is rounded to the even neighbour.
fmt_vaf(v) ==
    LET q == (v * 125) \div 2
        r == (v * 125) % 2
        t == IF r = 0 THEN q ELSE IF q % 2 = 0 THEN q ELSE q + 1
    IN  <<Digit(t \div 1000), ".", Digit((t \div 100) % 10),
          Digit((t \div 10) % 10), Digit(t % 10)>>

\* A formatter that sorts the entries by label before rendering them.
fmt_variants_by_label(variants) ==
    LET labels == sorted(DOMAIN variants)
    IN  join(<<" ">>,
             [i \in 1..Len(labels) |->
                 labels[i] \o <<":">> \o fmt_vaf(variants[labels[i]])])

\* Lines 212-213.
fmt_variants(variants) ==
    join(<<" ">>,
         sorted({hgvsp \o <<":">> \o fmt_vaf(variants[hgvsp]) : hgvsp \in DOMAIN variants}))

\* Line 245-246.
MaxCellLen == 32767

TooMany == 
    <<"T", "o", "o", " ", "m", "a", "n", "y", " ", "v", "a", "r", "i", "a", "n", "t", "s", " ">> \o
    <<"t", "o", " ", "d", "i", "s", "p", "l", "a", "y">>

\* An unwritten cell of the DataFrame.
NaN == <<"NaN">>

\* A guard that also replaces a cell of exactly the limit's length.
GuardCell_ge(cell) == IF Len(cell) >= MaxCellLen THEN TooMany ELSE cell

\* Lines 244-246 for one cell of the "Other Mutations" column.
GuardCell(cell) == IF Len(cell) > MaxCellLen THEN TooMany ELSE cell

(***************************************************************************)
(* Inputs.                                                                 *)
(***************************************************************************)
\* AF values of the records, in sixteenths: 0.0625 and 0.5.
Vafs == {1, 8}

\* "T:p.<alteration>"
Hgvs(alteration) == <<"T", ":", "p", ".">> \o alteration

FeatS == <<"S">>
FeatN == <<"N">>

\* Malformed HGVS strings: no ':' at all, and no '.' after the ':'.
NoColon == <<"T", "p", ".", "G", "l", "y", "1", "2", "A", "l", "a">>
NoDot == <<"T", ":", "p", "G", "l", "y", "1", "2", "A", "l", "a">>

\* (feature, ANN field 11) of the annotations a record may carry.
Annotations ==
    { <<FeatS, << >> >>,
      <<FeatS, Hgvs(Gly12Ala_)>>,
      <<FeatS, Hgvs(G12A_)>>,
      <<FeatS, Hgvs(Met1Leu_)>>,
      <<FeatS, Hgvs(Ala1_)>>,
      <<FeatS, Hgvs(Ala12_)>>,
      <<FeatN, Hgvs(Met1Leu_)>>,
      <<FeatS, NoColon>>,
      <<FeatS, NoDot>> }

Samples == 1..NSamples

Tiers == {"flirt", "voc", "other"}

NoError == [type |-> "none", text |-> ""]

\* What the unpacking of a one-element list raises.
UnpackError ==
    [type |-> "ValueError", text |-> "not enough values to unpack (expected 2, got 1)"]

Row(f, m, o) == [flirt |-> f, voc |-> m, other |-> o]

(***************************************************************************)
(* The script from line 195 on.                                            *)
(***************************************************************************)
Init ==
    /\ pc = "loop"
    /\ cur = 1
    /\ flirt_mutations = EmptyMap
    /\ mutations_of_interest = EmptyMap
    /\ other_mutations = EmptyMap
    /\ data = [s \in Samples |-> Row(NaN, NaN, NaN)]
    /\ error = NoError
    /\ nann = 0
    /\ last = [kind |-> "none", hgvsp |-> << >>]
    /\ inserted = {}
    /\ t_orig = << >>
    /\ t_cur = << >>

\* A test that lets every annotation through.
IsPresent_always(hgvsp) == TRUE

\* Line 223: "if hgvsp:", the truth value of a str.
IsPresent(hgvsp) == hgvsp # << >>

\* Lines 217-237 for one annotation of a record of the current file whose AF is v.
ProcessAnn(v, feature, hgvsp) ==
    /\ pc = "loop"
    /\ nann < MaxAnns
    /\ nann' = nann + 1
    /\ UNCHANGED <<cur, data, t_orig, t_cur>>
    /\ IF ~IsPresent(hgvsp)
       THEN /\ last' = [kind |-> "skipped", hgvsp |-> hgvsp]
            /\ UNCHANGED <<pc, error, flirt_mutations, mutations_of_interest,
                           other_mutations, inserted>>
       ELSE LET p == ParseHgvsp(hgvsp)
            IN  IF ~p.ok
                THEN /\ pc' = "crashed"
                     /\ error' = UnpackError
                     /\ last' = [kind |-> "failed", hgvsp |-> hgvsp]
                     /\ UNCHANGED <<flirt_mutations, mutations_of_interest,
                                    other_mutations, inserted>>
                ELSE LET r == Annotate(feature, p.alteration)
                     IN  /\ flirt_mutations' =
                                IF r.tier = "flirt"
                                THEN insert_entry(flirt_mutations, r.label, v)
                                ELSE flirt_mutations
                         /\ mutations_of_interest' =
                                IF r.tier = "voc"
                                THEN insert_entry(mutations_of_interest, r.label, v)
                                ELSE mutations_of_interest
                         /\ other_mutations' =
                                IF r.tier = "other"
                                THEN insert_entry(other_mutations, r.label, v)
                                ELSE other_mutations
                         /\ last' = [kind |-> "inserted", hgvsp |-> << >>]
                         /\ inserted' = inserted \cup
                                {[tier |-> r.tier, feature |-> feature, hgvsp |-> hgvsp,
                                  raw |-> p.alteration, alteration |-> r.alteration,
                                  label |-> r.label, vaf |-> v]}
                         /\ UNCHANGED <<pc, error>>

\* A sample loop whose dictionaries are created once, before the loop.
NextSampleMaps_shared(f, m, o) == <<f, m, o>>

\* Lines 196-198: the dictionaries the next iteration starts with.
NextSampleMaps(f, m, o) == <<EmptyMap, EmptyMap, EmptyMap>>

\* Lines 239-241, and the start of the next iteration (195-198) if there is one.
EndSample ==
    /\ pc = "loop"
    /\ data' = [data EXCEPT ![cur] = Row(fmt_variants(flirt_mutations),
                                         fmt_variants(mutations_of_interest),
                                         fmt_variants(other_mutations))]
    /\ cur' = cur + 1
    /\ IF cur < NSamples
       THEN LET n == NextSampleMaps(flirt_mutations, mutations_of_interest,
                                    other_mutations)
            IN  /\ flirt_mutations' = n[1]
                /\ mutations_of_interest' = n[2]
                /\ other_mutations' = n[3]
                /\ inserted' = {}
                /\ pc' = "loop"
       ELSE /\ pc' = "guard"
            /\ UNCHANGED <<flirt_mutations, mutations_of_interest, other_mutations,
                           inserted>>
    /\ UNCHANGED <<error, nann, last, t_orig, t_cur>>

\* Lines 244-246 for one row: only "Other Mutations" is tested and replaced.
GuardRow(row) ==
    Row(row.flirt, row.voc, GuardCell(row.other))

\* Lines 244-246.
ApplyGuard ==
    /\ pc = "guard"
    /\ data' = [s \in Samples |-> GuardRow(data[s])]
    /\ pc' = "done"
    /\ UNCHANGED <<cur, flirt_mutations, mutations_of_interest, other_mutations,
                   error, nann, last, inserted, t_orig, t_cur>>

Next ==
    \/ \E v \in Vafs, a \in Annotations : ProcessAnn(v, a[1], a[2])
    \/ EndSample
    \/ ApplyGuard

Spec == Init /\ [][Next]_vars

(***************************************************************************)
(* The translation loop (lines 227-228) on its own: the alteration is any  *)
(* concatenation of three-letter codes, digits and the tokens del, ins,    *)
(* dup, fs, _ and *.  ApplyReplace performs the loop body for any table    *)
(* entry, so that the loop's replacements are explored in every order;    *)
(* RunTranslate is the loop as the script runs it.                         *)
(***************************************************************************)
Codes == 1..Len(AA_ALPHABET_TRANSLATION)

OtherTokens ==
    { <<"1">>, <<"2">>, <<"d", "e", "l">>, <<"i", "n", "s">>, <<"d", "u", "p">>,
      <<"f", "s">>, <<"_">>, <<"*">> }

Tokens == {AA_ALPHABET_TRANSLATION[i][1] : i \in Codes} \cup OtherTokens

RECURSIVE TokenStrings(_)
TokenStrings(n) ==
    IF n = 0 THEN {<< >>}
    ELSE LET S == TokenStrings(n - 1)
         IN  S \cup {s \o t : s \in S, t \in Tokens}

InitTranslate ==
    /\ pc = "translate"
    /\ t_orig \in TokenStrings(MaxTokens) \cup {Gly12Ala_, Met1Leu_}
    /\ t_cur = t_orig
    /\ cur = 1
    /\ flirt_mutations = EmptyMap
    /\ mutations_of_interest = EmptyMap
    /\ other_mutations = EmptyMap
    /\ data = [s \in Samples |-> Row(NaN, NaN, NaN)]
    /\ error = NoError
    /\ nann = 0
    /\ last = [kind |-> "none", hgvsp |-> << >>]
    /\ inserted = {}

\* Line 228 for one table entry.
ApplyReplace(i) ==
    /\ pc = "translate"
    /\ t_cur' = ReplaceStep(i, t_cur)
    /\ UNCHANGED <<pc, cur, flirt_mutations, mutations_of_interest, other_mutations,
                   data, error, nann, last, inserted, t_orig>>

\* Lines 227-228: the whole loop, in the table's order.
RunTranslate ==
    /\ pc = "translate"
    /\ t_cur' = Translate(t_cur)
    /\ pc' = "translated"
    /\ UNCHANGED <<cur, flirt_mutations, mutations_of_interest, other_mutations,
                   data, error, nann, last, inserted, t_orig>>

NextTranslate ==
    \/ \E i \in Codes : ApplyReplace(i)
    \/ RunTranslate

SpecTranslate == InitTranslate /\ [][NextTranslate]_vars

(***************************************************************************)
(* The end of the script (lines 239-246) with cells around the length      *)
(* limit.  A label may be arbitrarily long (a long insertion), so a        *)
(* dictionary with a single long label gives a formatted string of any     *)
(* length from 8 on.  The run starts when the records of the last sample   *)
(* have been read; the rows of the earlier samples are already written.    *)
(* The history variables are not used here.                                *)
(***************************************************************************)
\* A label "S:AAA...A" of n characters.
LongLabel(n) == <<"S", ":">> \o [i \in 1..(n - 2) |-> "A"]

\* A dictionary whose formatted string has n characters (label, ':', 5 of the vaf).
MapOfLen(n) == (LongLabel(n - 6) :> 8)

ShortMap == ((FeatS \o <<":">> \o G12A_) :> 8) @@ ((FeatN \o <<":">> \o M1L_) :> 1)

\* (flirt_mutations, mutations_of_interest, other_mutations) when a file has been read.
GuardMaps ==
    { <<EmptyMap, EmptyMap, EmptyMap>>,
      <<ShortMap, EmptyMap, ShortMap>>,
      <<EmptyMap, ShortMap, MapOfLen(MaxCellLen - 1)>>,
      <<EmptyMap, EmptyMap, MapOfLen(MaxCellLen)>>,
      <<EmptyMap, EmptyMap, MapOfLen(MaxCellLen + 1)>>,
      <<ShortMap, ShortMap, MapOfLen(MaxCellLen + 2)>>,
      <<MapOfLen(MaxCellLen + 1), EmptyMap, ShortMap>>,
      <<EmptyMap, MapOfLen(MaxCellLen + 1), EmptyMap>> }

InitGuard ==
    /\ pc = "loop"
    /\ cur = NSamples
    /\ \E m \in GuardMaps :
           /\ flirt_mutations = m[1]
           /\ mutations_of_interest = m[2]
           /\ other_mutations = m[3]
    /\ \E w \in [1..(NSamples - 1) -> GuardMaps] :
           data = [s \in Samples |->
                      IF s < NSamples
                      THEN Row(fmt_variants(w[s][1]), fmt_variants(w[s][2]),
                               fmt_variants(w[s][3]))
                      ELSE Row(NaN, NaN, NaN)]
    /\ error = NoError
    /\ nann = 0
    /\ last = [kind |-> "none", hgvsp |-> << >>]
    /\ inserted = {}
    /\ t_orig = << >>
    /\ t_cur = << >>

NextGuard ==
    \/ EndSample
    \/ ApplyGuard

SpecGuard == InitGuard /\ [][NextGuard]_vars

(***************************************************************************)
(* Properties.                                                             *)
(***************************************************************************)
MapOf(tier) ==
    CASE tier = "flirt" -> flirt_mutations
      [] tier = "voc"   -> mutations_of_interest
      [] tier = "other" -> other_mutations

SetMax(S) == CHOOSE x \in S : \A y \in S : y <= x

\* The one-letter form of an alteration: one pass from left to right in which
\* every three-letter code met is replaced and every other character copied.
RECURSIVE SinglePass(_)
SinglePass(s) ==
    IF s = << >> THEN << >>
    ELSE IF Len(s) >= 3 /\ \E i \in Codes : SubSeq(s, 1, 3) = AA_ALPHABET_TRANSLATION[i][1]
         THEN LET i == CHOOSE k \in Codes : SubSeq(s, 1, 3) = AA_ALPHABET_TRANSLATION[k][1]
              IN  AA_ALPHABET_TRANSLATION[i][2] \o SinglePass(SubSeq(s, 4, Len(s)))
         ELSE <<s[1]>> \o SinglePass(Tail(s))

\* A non-empty HGVS string with a ':' and a '.' somewhere after the first ':'.
WellFormed(h) ==
    \E i \in 1..Len(h) :
        /\ h[i] = ":"
        /\ \A j \in 1..(i - 1) : h[j] # ":"
        /\ \E k \in (i + 1)..Len(h) : h[k] = "."

\* C1 as stated: every inserted annotation is in the tier that the reference sets
\* give for its alteration as parsed, BEFORE the three-letter codes are replaced
\* (so an alteration listed in three-letter form goes to that tier).
C1_MembershipBeforeTranslation ==
    \A e \in inserted :
        e.tier = IF e.raw \in Get(params_flirt, e.feature) THEN "flirt"
                 ELSE IF e.raw \in Get(params_mth, e.feature) THEN "voc"
                 ELSE "other"

\* C1 amended: every inserted annotation is in tier 1 exactly if the one-letter
\* form of its alteration (the string AFTER the substitution) is in the tier-1
\* reference set of its feature, and in tier 2 exactly if that form is not in
\* the tier-1 set but in the tier-2 set; so an entry of a reference set written
\* with three-letter codes matches no annotation.
C1_MembershipAfterTranslation ==
    \A e \in inserted :
        LET a == SinglePass(e.raw)
        IN  /\ e.tier = "flirt" <=> a \in Get(params_flirt, e.feature)
            /\ e.tier = "voc" <=> /\ a \notin Get(params_flirt, e.feature)
                                  /\ a \in Get(params_mth, e.feature)

\* C1 witness: 'Gly12Ala' went to tier 1 because 'G12A' is listed, and 'Met1Leu',
\* although listed in tier 1 in that form, did not.
C1_Witness ==
    /\ \E e \in inserted : e.raw = Gly12Ala_ /\ e.tier = "flirt" /\ e.feature = FeatS
    /\ \E e \in inserted : /\ e.raw = Met1Leu_ /\ e.feature = FeatS
                           /\ e.raw \in params_flirt[FeatS] /\ e.tier # "flirt"

\* C2: in every state each tier's dictionary has exactly the labels inserted into
\* that tier for the current sample, each with the maximum of the VAFs inserted
\* for it; and no step lowers the VAF stored for a label while the sample is read.
C2_MaxInv ==
    \A t \in Tiers :
        /\ DOMAIN MapOf(t) = {e.label : e \in {x \in inserted : x.tier = t}}
        /\ \A l \in DOMAIN MapOf(t) :
               MapOf(t)[l] = SetMax({e.vaf : e \in {x \in inserted : x.tier = t /\ x.label = l}})

C2_NeverDecreases ==
    cur' = cur =>
        /\ \A l \in DOMAIN flirt_mutations :
               l \in DOMAIN flirt_mutations' /\ flirt_mutations'[l] >= flirt_mutations[l]
        /\ \A l \in DOMAIN mutations_of_interest :
               /\ l \in DOMAIN mutations_of_interest'
               /\ mutations_of_interest'[l] >= mutations_of_interest[l]
        /\ \A l \in DOMAIN other_mutations :
               l \in DOMAIN other_mutations' /\ other_mutations'[l] >= other_mutations[l]

C2_DedupMax == [](C2_MaxInv) /\ [][C2_NeverDecreases]_vars

\* C2 witness: a label inserted with both VAFs, the higher one kept, at the end of
\* the last sample.
C2_Witness ==
    /\ pc = "guard"
    /\ \E e1, e2 \in inserted :
           /\ e1.label = e2.label /\ e1.tier = e2.tier /\ e1.vaf < e2.vaf
           /\ MapOf(e1.tier)[e1.label] = e2.vaf

\* C3: every inserted annotation has its label in the dictionary of exactly one
\* tier, no label is a key of two of the three dictionaries, and an annotation
\* that was not inserted had an empty or malformed HGVS string.  (Feature names
\* are gene names, without ':', so a label determines its feature.)
C3_TierPartition ==
    /\ \A e \in inserted :
           /\ e.label \in DOMAIN MapOf(e.tier)
           /\ \A t \in Tiers \ {e.tier} : e.label \notin DOMAIN MapOf(t)
    /\ DOMAIN flirt_mutations \cap DOMAIN mutations_of_interest = {}
    /\ DOMAIN flirt_mutations \cap DOMAIN other_mutations = {}
    /\ DOMAIN mutations_of_interest \cap DOMAIN other_mutations = {}
    /\ last.kind \in {"skipped", "failed"} => ~WellFormed(last.hgvsp)

\* C3 witness: a sample with a label in each tier, the three-letter and the
\* one-letter spelling of one alteration among them.
C3_Witness ==
    /\ flirt_mutations # EmptyMap
    /\ mutations_of_interest # EmptyMap
    /\ other_mutations # EmptyMap
    /\ \E e \in inserted : e.raw = G12A_

\* C8: the alteration tested (the translated one) goes to tier 1 if the tier-1 set
\* of its feature has it, else to tier 2 if the tier-2 set of its feature has it,
\* else to 'other'; a feature without an entry in a reference mapping has the empty
\* set there, and an alteration in both sets is in tier 1.
C8_ClassificationRule ==
    \A e \in inserted :
        LET in1 == e.feature \in DOMAIN params_flirt /\ e.alteration \in params_flirt[e.feature]
            in2 == e.feature \in DOMAIN params_mth /\ e.alteration \in params_mth[e.feature]
        IN  /\ in1 => e.tier = "flirt"
            /\ ~in1 /\ in2 => e.tier = "voc"
            /\ ~in1 /\ ~in2 => e.tier = "other"
            /\ e.label = e.feature \o <<":">> \o e.alteration

\* C8 witness: an alteration of both sets in tier 1, and one of a feature that
\* neither reference mapping knows in 'other'.
C8_Witness ==
    /\ \E e \in inserted : /\ e.alteration \in params_flirt[FeatS] \cap params_mth[FeatS]
                           /\ e.feature = FeatS /\ e.tier = "flirt"
    /\ \E e \in inserted : /\ e.feature \notin DOMAIN params_flirt
                           /\ e.feature \notin DOMAIN params_mth
                           /\ e.tier = "other"
    /\ error = NoError

\* The decimal d is v/16 rendered with exactly three decimals: "D.DDD", the
\* nearest number of thousandths, the even one of the two when half-way.
IsDecimal3(d, v) ==
    /\ Len(d) = 5
    /\ d[2] = "."
    /\ \A k \in {1, 3, 4, 5} : Ord[d[k]] \in 48..57
    /\ LET t == 1000 * (Ord[d[1]] - 48) + 100 * (Ord[d[3]] - 48)
                + 10 * (Ord[d[4]] - 48) + (Ord[d[5]] - 48)
       IN  /\ 2 * t - 125 * v \in {-1, 0, 1}
           /\ 2 * t # 125 * v => t % 2 = 0

\* str is the entries of variants, each "<label>:<vaf>", joined by single spaces,
\* in increasing order of the label (byLabel) or of the whole entry (~byLabel).
IsFormatted(variants, str, byLabel) ==
    LET n == Cardinality(DOMAIN variants)
    IN  \E ls \in [1..n -> DOMAIN variants] :
            LET entry(i) == ls[i] \o <<":">> \o fmt_vaf(variants[ls[i]])
            IN  /\ \A i, j \in 1..n : i # j => ls[i] # ls[j]
                /\ \A i \in 1..n : IsDecimal3(fmt_vaf(variants[ls[i]]), variants[ls[i]])
                /\ \A i \in 1..(n - 1) :
                       IF byLabel THEN StrLess(ls[i], ls[i + 1])
                       ELSE StrLess(entry(i), entry(i + 1))
                /\ str = join(<<" ">>, [i \in 1..n |-> entry(i)])

\* C4 as stated: each summary written for the last sample lists the entries of
\* its dictionary in lexicographic order of the LABELS (a label before every
\* label it is a proper prefix of), each as '<label>:<vaf with 3 decimals>',
\* joined by one space.
C4_SortedByLabel ==
    pc = "guard" =>
        \A t \in Tiers : IsFormatted(MapOf(t), data[NSamples][t], TRUE)

\* C4 amended: each summary lists the entries of its dictionary in lexicographic
\* order of the RENDERED entries '<label>:<vaf with 3 decimals>', joined by one
\* space, and is empty for the empty dictionary; so a label that is a proper
\* prefix of another comes after it when the longer label goes on with a
\* character smaller than ':' ('S:A12:...' before 'S:A1:...').
C4_SortedByEntry ==
    pc = "guard" =>
        \A t \in Tiers :
            /\ IsFormatted(MapOf(t), data[NSamples][t], FALSE)
            /\ MapOf(t) = EmptyMap => data[NSamples][t] = << >>

\* C4 witness: 'S:A1' and 'S:A12' are both in 'other', and 'S:A12' is written first.
C4_Witness ==
    /\ pc = "guard"
    /\ {FeatS \o <<":", "A", "1">>, FeatS \o <<":", "A", "1", "2">>}
           \subseteq DOMAIN other_mutations
    /\ SubSeq(data[NSamples].other, 1, 6) = FeatS \o <<":", "A", "1", "2", ":">>
    /\ flirt_mutations = EmptyMap

\* C5: the guard replaces a sample's 'other' summary by the placeholder exactly if
\* it is longer than 32767 characters, leaves it as it is otherwise, and leaves
\* the tier-1 and tier-2 summaries as they are whatever their length.
C5_GuardStep ==
    pc = "guard" /\ pc' = "done" =>
        \A s \in Samples :
            /\ data'[s].other = TooMany <=> Len(data[s].other) > 32767
            /\ Len(data[s].other) <= 32767 => data'[s].other = data[s].other
            /\ data'[s].flirt = data[s].flirt
            /\ data'[s].voc = data[s].voc

C5_OverflowGuard == [][C5_GuardStep]_vars

\* C5 witness: the last sample's 'other' summary of 32768 characters was replaced,
\* another sample's of 32767 characters was not.
C5_Witness ==
    /\ pc = "done"
    /\ Len(fmt_variants(other_mutations)) = 32768
    /\ data[NSamples].other = TooMany
    /\ \E s \in Samples : Len(data[s].other) = 32767

\* C6 as stated: when a malformed HGVS string stops the run, the error is a
\* labeled MalformedAnnotationError.
C6_LabeledError ==
    pc = "crashed" => error.type = "MalformedAnnotationError"

\* C6 amended: a non-empty HGVS string without ':' or without '.' after the first
\* ':' stops the whole run with the ValueError of the failed unpacking (which does
\* not name the string); nothing runs after it, and no label in a dictionary comes
\* from a malformed string.
C6_MalformedIsFatal ==
    /\ \A e \in inserted : WellFormed(e.hgvsp)
    /\ \A t \in Tiers : \A l \in DOMAIN MapOf(t) : \E e \in inserted : e.label = l
    /\ last.kind = "skipped" => last.hgvsp = << >>
    /\ last.kind = "failed" <=> pc = "crashed"
    /\ pc # "crashed" => error = NoError
    /\ pc = "crashed" =>
           /\ last.hgvsp # << >>
           /\ ~WellFormed(last.hgvsp)
           /\ error.type = "ValueError"
           /\ ~ENABLED Next

\* C6 witness: the run stopped at 'T:pGly12Ala' with the dictionaries of the
\* annotations before it.
C6_Witness ==
    /\ pc = "crashed"
    /\ last.hgvsp = NoDot
    /\ inserted # {}
    /\ error = UnpackError

\* C7: the alteration the loop produces is the one-letter form of the input; and
\* so is the result of the 20 replacements in any other order, because whatever
\* replacements were made so far, (a) completing them gives the one-letter form,
\* (b) a replacement removes every occurrence of its code and (c) creates no
\* occurrence of a code that had none.
CodesIn(s) ==
    {SubSeq(s, k, k + 2) : k \in 1..(Len(s) - 2)}
        \cap {AA_ALPHABET_TRANSLATION[i][1] : i \in Codes}

C7_Translation ==
    pc \in {"translate", "translated"} =>
        /\ Translate(t_cur) = SinglePass(t_orig)
        /\ pc = "translated" => t_cur = SinglePass(t_orig)
        /\ \A i \in Codes :
               CodesIn(ReplaceStep(i, t_cur))
                   \subseteq CodesIn(t_cur) \ {AA_ALPHABET_TRANSLATION[i][1]}

\* C7 witness: 'Met1Leu' was translated to 'M1L'.
C7_Witness ==
    pc = "translated" /\ t_orig = Met1Leu_ /\ t_cur = M1L_

\* C9: an annotation with an empty HGVS string is skipped without an error and
\* without a change to a dictionary or a row; a sample into whose dictionaries
\* nothing was inserted gets three empty summaries, and the guard leaves empty
\* summaries empty.
EmptyRow == Row(<< >>, << >>, << >>)

C9_Step ==
    /\ \A e \in inserted' : e.hgvsp # << >>
    /\ nann' = nann + 1 /\ last'.kind # "inserted" /\ last'.hgvsp = << >> =>
           /\ last'.kind = "skipped"
           /\ UNCHANGED <<pc, error, flirt_mutations, mutations_of_interest,
                          other_mutations, data, inserted>>
    /\ pc = "loop" /\ cur' = cur + 1 /\ inserted = {} => data'[cur] = EmptyRow
    /\ pc = "guard" /\ pc' = "done" =>
           \A s \in Samples : data[s] = EmptyRow => data'[s] = EmptyRow

C9_EmptyIsSkipped == [][C9_Step]_vars

\* C9 witness: the run is over, an annotation with an empty HGVS string was the
\* last one processed, and every sample has three empty summaries.
C9_Witness ==
    /\ pc = "done"
    /\ last.kind = "skipped"
    /\ \A s \in Samples : data[s] = EmptyRow

\* C10: when a sample is finished, its row is the formatted maxima of the VAFs
\* inserted for that sample alone, the next sample starts with three empty
\* dictionaries, and reading samples changes no row written before.
OwnMap(t) ==
    [l \in {e.label : e \in {x \in inserted : x.tier = t}} |->
        SetMax({e.vaf : e \in {x \in inserted : x.tier = t /\ x.label = l}})]

C10_Step ==
    /\ pc = "loop" /\ cur' = cur + 1 =>
           /\ data'[cur] = Row(fmt_variants(OwnMap("flirt")), fmt_variants(OwnMap("voc")),
                               fmt_variants(OwnMap("other")))
           /\ pc' = "loop" => /\ flirt_mutations' = EmptyMap
                              /\ mutations_of_interest' = EmptyMap
                              /\ other_mutations' = EmptyMap
    /\ pc' # "done" => \A s \in Samples : s < cur => data'[s] = data[s]

C10_SampleIsolation == [][C10_Step]_vars

\* C10 witness: the first sample reported S:G12A at 0.500; the second sample, in
\* which it was seen at 0.0625 only, holds it at 0.0625.
C10_Witness ==
    /\ pc = "loop"
    /\ cur = 2
    /\ data[1].flirt = FeatS \o <<":">> \o G12A_ \o <<":", "0", ".", "5", "0", "0">>
    /\ flirt_mutations = ((FeatS \o <<":">> \o G12A_) :> 1)

====
